---- MODULE Spec2Model ----
(***************************************************************************)
(* Model of the inventory management core: the Product record              *)
(* (inventory_management/models.py), the JSON record store                 *)
(* (inventory_management/storage.py) and the InventoryManager              *)
(* (inventory_management/inventory.py).                                    *)
(*                                                                         *)
(* An optional Python argument is a sequence of length <= 1: <<>> is None  *)
(* (or an omitted keyword argument), <<v>> is the value v.  The dict       *)
(* self.products is a sequence of [key, val] pairs in insertion order.     *)
(* Each manager call is made at its own clock reading, later than the one  *)
(* before, and every datetime.now() inside the call returns that reading.  *)
(***************************************************************************)
EXTENDS Integers, Sequences, FiniteSets, TLC

\* ------------------------------------------------------------------ bounds
\* a behaviour holds at most MaxTime manager calls after the first
\* construction: call number n is made at clock reading n
MaxTime == 2
\* at most MaxSaveFailures of the saves of a behaviour hit an I/O error
MaxSaveFailures == 1

\* ------------------------------------------------------- program constants
\* models.py:21, the default of Product.reorder_level (and of add_product)
DefaultReorderLevel == 10

None == <<>>
Some(v) == <<v>>

\* a Python float, the type of Product.price: a number (whole numbers
\* stand for all of them) or the float nan
Float(n) == <<"num", n>>
NaN == <<"nan">>

\* x < n and x >= n for a float x: every comparison with nan is false
FloatLess(x, n) == x # NaN /\ x[2] < n
FloatAtLeast(x, n) == x # NaN /\ x[2] >= n

\* x * n and x + y for floats x, y and an int n: nan when an operand is
FloatTimes(x, n) == IF x = NaN THEN NaN ELSE Float(x[2] * n)
FloatPlus(x, y) == IF x = NaN \/ y = NaN THEN NaN ELSE Float(x[2] + y[2])

\* ------------------------------------------------------------ result texts
MsgPrice == "Price cannot be negative"
MsgQuantity == "Quantity cannot be negative"
MsgReorder == "Reorder level cannot be negative"
MsgName == "Product name cannot be empty"
MsgCategory == "Category cannot be empty"
MsgExists == "Product with SKU '{sku}' already exists"
MsgNotFound == "Product with SKU '{sku}' not found"
MsgAdded == "Product '{name}' added with SKU: {product.sku}"
MsgUpdated == "Product '{sku}' updated successfully"
MsgDeleted == "Product '{product_name}' (SKU: {sku}) deleted"
MsgAddPositive == "Quantity to add must be positive"
MsgRemovePositive == "Quantity to remove must be positive"
MsgInsufficient == "Insufficient stock. Available: {product.quantity}, Requested: {quantity}"
MsgStockAdded == "Added {quantity} units to '{product.name}'. New quantity: {product.quantity}"
MsgStockRemoved == "Removed {quantity} units from '{product.name}'. Remaining: {product.quantity}"
MsgBackupOk == "Backup created successfully"
MsgBackupFailed == "Failed to create backup"
MsgCleared == "All products have been removed from inventory"

VARIABLES
    products,     \* InventoryManager.products: sequence of [key, val]; of
                  \* manager instance A where there are two
    file,         \* content of the data file at storage.filepath
    backupFile,   \* content of the file at storage.filepath + ".backup"
    now,          \* the clock reading of the latest manager call
    call,         \* the manager operation called last, with its arguments
    result,       \* the (success, message) pair it returned: [ok, msg, sku]
    saveRet,      \* what storage.save returned inside it: "none", "true", "false"
    raised,       \* TRUE when that operation raised instead of returning
    failures,     \* the number of saves that hit an I/O error so far
    answer,       \* the value a read operation returned, <<>> for the others
    productsB,    \* the products of a second manager instance on the same file
    self          \* the instance the last call was made on: "A" or "B"

vars ==
    <<products, file, backupFile, now, call, result, saveRet, raised, failures,
      answer, productsB, self>>

\* ------------------------------------------------------------ the dict
Keys(ps) == {ps[i].key : i \in 1..Len(ps)}

IndexOf(ps, k) == CHOOSE i \in 1..Len(ps) : ps[i].key = k

\* d[k] = v: a present key keeps its position, a new key goes last
DictPut(ps, k, v) ==
    IF k \in Keys(ps)
    THEN [ps EXCEPT ![IndexOf(ps, k)] = [key |-> k, val |-> v]]
    ELSE Append(ps, [key |-> k, val |-> v])

\* d.clear() for del d[k]
DictDel_All(ps, k) == <<>>

\* del d[k]
DictDel(ps, k) ==
    LET keep(e) == e.key # k IN SelectSeq(ps, keep)

\* d[k], for k in d
DictAt(ps, k) == ps[IndexOf(ps, k)].val

\* list(d.values())
Values(ps) == [i \in 1..Len(ps) |-> ps[i].val]

\* ------------------------------------------------------------ models.py
\* __post_init__ without its reorder_level check
PostInit_NoReorderCheck(p) ==
    IF FloatLess(p.price, 0) THEN MsgPrice
    ELSE IF p.quantity < 0 THEN MsgQuantity
    ELSE IF p.name = "" THEN MsgName
    ELSE IF p.category = "" THEN MsgCategory
    ELSE ""

\* Product.__post_init__: the message of the ValueError raised, "" for none
PostInit(p) ==
    IF FloatLess(p.price, 0) THEN MsgPrice
    ELSE IF p.quantity < 0 THEN MsgQuantity
    ELSE IF p.reorder_level < 0 THEN MsgReorder
    ELSE IF p.name = "" THEN MsgName
    ELSE IF p.category = "" THEN MsgCategory
    ELSE ""

\* to_dict without its "supplier" entry
ToDict_NoSupplier(p) ==
    [sku |-> p.sku, name |-> p.name, category |-> p.category,
     price |-> p.price, quantity |-> p.quantity,
     description |-> p.description, reorder_level |-> p.reorder_level,
     created_at |-> p.created_at, updated_at |-> p.updated_at]

\* Product.to_dict
ToDict(p) ==
    [sku |-> p.sku, name |-> p.name, category |-> p.category,
     price |-> p.price, quantity |-> p.quantity,
     description |-> p.description, reorder_level |-> p.reorder_level,
     supplier |-> p.supplier, created_at |-> p.created_at,
     updated_at |-> p.updated_at]

\* data[k] raises KeyError for a key that is absent
HasRequiredKeys(data) ==
    {"name", "category", "price", "quantity"} \subseteq DOMAIN data

\* data.get(k, default)
DictGetDefault(data, k, default) ==
    IF k \in DOMAIN data THEN data[k] ELSE default

\* from_dict that takes updated_at from the clock, not from the data
FromDict_FreshUpdatedAt(data, t) ==
    [sku |-> DictGetDefault(data, "sku", ""),
     name |-> data["name"], category |-> data["category"],
     price |-> data["price"], quantity |-> data["quantity"],
     description |-> DictGetDefault(data, "description", ""),
     reorder_level |-> DictGetDefault(data, "reorder_level", DefaultReorderLevel),
     supplier |-> DictGetDefault(data, "supplier", ""),
     created_at |-> DictGetDefault(data, "created_at", t),
     updated_at |-> t]

\* Product.from_dict, for data that has the required keys; t is the
\* reading of datetime.now() taken for the timestamp defaults
FromDict(data, t) ==
    [sku |-> DictGetDefault(data, "sku", ""),
     name |-> data["name"], category |-> data["category"],
     price |-> data["price"], quantity |-> data["quantity"],
     description |-> DictGetDefault(data, "description", ""),
     reorder_level |-> DictGetDefault(data, "reorder_level", DefaultReorderLevel),
     supplier |-> DictGetDefault(data, "supplier", ""),
     created_at |-> DictGetDefault(data, "created_at", t),
     updated_at |-> DictGetDefault(data, "updated_at", t)]

\* is_low_stock with `<` for `<=`
IsLowStock_Strict(p) == p.quantity < p.reorder_level

\* Product.is_low_stock
IsLowStock(p) == p.quantity <= p.reorder_level

\* total_value that leaves the quantity out
TotalValue_PerUnit(p) == p.price

\* Product.total_value
TotalValue(p) == FloatTimes(p.price, p.quantity)

\* Product.update_timestamp
UpdateTimestamp(p, t) == [p EXCEPT !.updated_at = t]

\* ------------------------------------------------------------ storage.py
\* a file is [kind, entries, eol]: eol is "native" when its line ends are
\* os.linesep, which is what a text-mode write produces, and "foreign" when
\* they are not (\r\n on POSIX, a bare \n on Windows)
FileMissing == [kind |-> "missing", entries |-> <<>>, eol |-> "native"]
\* no bytes, or white space only
FileEmpty == [kind |-> "empty", entries |-> <<>>, eol |-> "native"]
\* text that json.loads rejects
FileCorrupt == [kind |-> "corrupt", entries |-> <<>>, eol |-> "native"]
\* what a write that failed part way leaves of the JSON text: a proper
\* prefix, which is empty or is text that json.loads rejects
FileTruncated == [kind |-> "truncated", entries |-> <<>>, eol |-> "native"]
FileJson(entries) == [kind |-> "json", entries |-> entries, eol |-> "native"]

\* the same text with line ends that are not os.linesep
ForeignNewlines(f) == [f EXCEPT !.eol = "foreign"]

\* f.read() of a file opened in text mode 'r' and then f.write(data) to one
\* opened in text mode 'w': the read turns every line end into \n and the
\* write turns every \n into os.linesep
TextCopy(f) == [f EXCEPT !.eol = "native"]

\* how the open() and json.dump() of InventoryStorage.save can end
\* "open_error": open(filepath, 'w') raises and the file is as it was;
\* "write_error": the file is opened, which truncates it, and a write raises
SaveOutcomes == {"ok", "open_error", "write_error"}

\* save that keeps the entries of the file whose SKU the dict lacks, after
\* the entries of the dict
Save_Merging(ps, f, outcome) ==
    LET kept(e) == e.sku \notin {ps[i].key : i \in 1..Len(ps)}
        written == [i \in 1..Len(ps) |-> ToDict(ps[i].val)]
    IN  IF outcome = "ok"
        THEN [file |-> FileJson(written \o SelectSeq(f.entries, kept)),
              ret |-> TRUE]
        ELSE IF outcome = "open_error" THEN [file |-> f, ret |-> FALSE]
        ELSE [file |-> FileTruncated, ret |-> FALSE]

\* InventoryStorage.save: the file it leaves and the value it returns
Save(ps, f, outcome) ==
    IF outcome = "ok"
    THEN [file |-> FileJson([i \in 1..Len(ps) |-> ToDict(ps[i].val)]), ret |-> TRUE]
    ELSE IF outcome = "open_error" THEN [file |-> f, ret |-> FALSE]
    ELSE [file |-> FileTruncated, ret |-> FALSE]

\* the entry makes Product.from_dict raise: KeyError for a missing required
\* key, ValueError from __post_init__
EntryRaises(data) ==
    \/ ~HasRequiredKeys(data)
    \/ PostInit(FromDict(data, 0)) # ""

\* the loop of load with each product stored under its name
RECURSIVE LoadEntries_KeyedByName(_, _, _)
LoadEntries_KeyedByName(entries, acc, t) ==
    IF entries = <<>> THEN acc
    ELSE LET product == FromDict(Head(entries), t)
         IN  LoadEntries_KeyedByName(Tail(entries),
                                     DictPut(acc, product.name, product), t)

\* the loop of InventoryStorage.load over entries that do not raise
RECURSIVE LoadEntries(_, _, _)
LoadEntries(entries, acc, t) ==
    IF entries = <<>> THEN acc
    ELSE LET product == FromDict(Head(entries), t)
         IN  LoadEntries(Tail(entries), DictPut(acc, product.sku, product), t)

\* InventoryStorage.load: the dict returned, or raised = TRUE when an
\* exception other than IOError, OSError and JSONDecodeError escapes
Load(f, t) ==
    IF f.kind = "missing" THEN [raised |-> FALSE, products |-> <<>>]
    ELSE IF f.kind = "empty" THEN [raised |-> FALSE, products |-> <<>>]
    ELSE IF f.kind = "corrupt" THEN [raised |-> FALSE, products |-> <<>>]
    ELSE IF f.kind = "truncated" THEN [raised |-> FALSE, products |-> <<>>]
    ELSE IF \E i \in 1..Len(f.entries) : EntryRaises(f.entries[i])
         THEN [raised |-> TRUE, products |-> <<>>]
         ELSE [raised |-> FALSE, products |-> LoadEntries(f.entries, <<>>, t)]


\* ------------------------------------------------------------ inputs
\* the tokens str(uuid.uuid4())[:8].upper() can return
SkuTokens == {"1A2B3C4D", "5E6F7A8B"}

\* the SKUs a caller types: a custom one, and one that reads like a token
CallerSkus == {"X1", "1A2B3C4D"}

\* an add_product call with valid fields and every optional argument left out
BaseAdd ==
    [name |-> "Widget", category |-> "Hardware", price |-> Float(5),
     quantity |-> 1, description |-> None, reorder_level |-> None, supplier |-> None,
     sku |-> None]

AddFieldNames == DOMAIN BaseAdd

\* the arguments a caller passes to add_product
AddDomain ==
    [name : {"", "Widget"}, category : {"", "Hardware"},
     price : {Float(-1), Float(5), NaN}, quantity : {-1, 1},
     description : {None, Some("blue")},
     reorder_level : {None, Some(-1), Some(0)},
     supplier : {None, Some("Acme")},
     sku : {None, Some("")} \cup {Some(k) : k \in CallerSkus}]

Deviations(a) == {f \in AddFieldNames : a[f] # BaseAdd[f]}

\* the add_product calls made: those that differ from BaseAdd in at most
\* one argument, and four that differ in more: an explicit SKU with a
\* negative price, two invalid fields (twice), every optional argument given
AddArgs ==
    {a \in AddDomain : Cardinality(Deviations(a)) <= 1}
    \cup {[BaseAdd EXCEPT !.sku = Some("X1"), !.price = Float(-1)],
          [BaseAdd EXCEPT !.price = Float(-1), !.name = ""],
          [BaseAdd EXCEPT !.name = "", !.category = ""],
          [BaseAdd EXCEPT !.description = Some("blue"),
                          !.reorder_level = Some(0),
                          !.supplier = Some("Acme"), !.sku = Some("X1")]}

UpdateFieldNames ==
    {"name", "category", "price", "quantity", "description",
     "reorder_level", "supplier"}

\* the keyword arguments update_product is called with
Supplied(a) == {f \in UpdateFieldNames : a[f] # None}

\* `not x` for a string argument that is given
IsEmpty(opt) == opt # None /\ opt[1] = ""

\* an int argument that is never found negative
IsNegative_Never(opt) == FALSE

\* `x < 0` for an int argument that is given
IsNegative(opt) == opt # None /\ opt[1] < 0

\* `price < 0` for a price that is given
IsNegativePrice(opt) == opt # None /\ FloatLess(opt[1], 0)

\* an update_product call supplies a field that breaks a validation rule
UpdateInvalid(a) ==
    \/ IsEmpty(a.name) \/ IsEmpty(a.category)
    \/ IsNegativePrice(a.price) \/ IsNegative(a.quantity)
    \/ IsNegative(a.reorder_level)

UpdateDomain ==
    [name : {None, Some(""), Some("Gadget")},
     category : {None, Some(""), Some("Tools")},
     price : {None, Some(Float(-1)), Some(Float(7)), Some(NaN)},
     quantity : {None, Some(-1), Some(2)},
     description : {None, Some("red")},
     reorder_level : {None, Some(-1), Some(0)},
     supplier : {None, Some("Bolt")}]

\* the update_product calls made (None: the argument is left out): those
\* that supply at most one field, and those that supply a valid name and
\* either a valid price or one invalid field
UpdateArgs ==
    {a \in UpdateDomain :
        \/ Cardinality(Supplied(a)) <= 1
        \/ /\ a.name = Some("Gadget")
           /\ Cardinality(Supplied(a)) = 2
           /\ (a.price = Some(Float(7)) \/ UpdateInvalid(a))}

\* the amounts add_stock and remove_stock are called with
Amounts == {-1, 0, 1, 2}

NoArgs == <<>>

NoAnswer == <<>>

\* the files a manager is first constructed on: absent, empty, not JSON, a
\* record with only the required keys (with either kind of line end), and
\* records that from_dict rejects
MinimalEntry ==
    [sku |-> "X1", name |-> "Widget", category |-> "Hardware",
     price |-> Float(5), quantity |-> 1]

NamelessEntry ==
    [sku |-> "X1", category |-> "Hardware", price |-> Float(5), quantity |-> 1]

NegativePriceEntry ==
    [sku |-> "X1", name |-> "Widget", category |-> "Hardware",
     price |-> Float(-1), quantity |-> 1, description |-> "", reorder_level |-> 0,
     supplier |-> "", created_at |-> 0, updated_at |-> 0]

InitialFiles ==
    {FileMissing, FileEmpty, FileCorrupt, FileJson(<<MinimalEntry>>),
     ForeignNewlines(FileJson(<<MinimalEntry>>)),
     FileJson(<<NamelessEntry>>), FileJson(<<NegativePriceEntry>>)}

\* ------------------------------------------------------------ inventory.py
Ret(ok, msg, sku) == [ok |-> ok, msg |-> msg, sku |-> sku]

Call(op, sku, args, amount) ==
    [op |-> op, sku |-> sku, args |-> args, amount |-> amount]

\* the manager instances: A, and in the specification of two managers B
Instances == {"A", "B"}

Other(m) == IF m = "A" THEN "B" ELSE "A"

\* self.products of instance m
Held(m) == IF m = "A" THEN products ELSE productsB

\* instance m leaves ps in its self.products; the other instance's is its own
Hold(m, ps) ==
    /\ self' = m
    /\ IF m = "A" THEN products' = ps /\ productsB' = productsB
                  ELSE productsB' = ps /\ products' = products

\* InventoryManager.__init__ on file f at clock reading t
Construct(f, t) ==
    LET loaded == Load(f, t)
    IN  /\ Hold("A", loaded.products)
        /\ raised' = loaded.raised
        /\ call' = Call("construct", "", NoArgs, 0)
        /\ result' = Ret(~loaded.raised, "", "")
        /\ saveRet' = "none"
        /\ answer' = NoAnswer

\* the outcomes a save or a copy can have under the I/O error budget
Outcomes == IF failures < MaxSaveFailures THEN SaveOutcomes ELSE {"ok"}

\* an operation whose failure is raised to the caller and not returned
Fails_Raising(m, c, ps, msg, sku) ==
    /\ Hold(m, ps)
    /\ call' = c
    /\ result' = Ret(FALSE, "", "")
    /\ raised' = TRUE
    /\ saveRet' = "none"
    /\ answer' = NoAnswer
    /\ UNCHANGED <<file, backupFile, failures>>

\* an operation of instance m that returns (False, msg) without saving; ps
\* is the dict it leaves
Fails(m, c, ps, msg, sku) ==
    /\ Hold(m, ps)
    /\ call' = c
    /\ result' = Ret(FALSE, msg, sku)
    /\ saveRet' = "none"
    /\ answer' = NoAnswer
    /\ UNCHANGED <<file, backupFile, raised, failures>>

\* InventoryManager._save, then return (True, msg): the value storage.save
\* returns is dropped
SaveAndSucceed(m, c, ps, msg, sku) ==
    \E outcome \in Outcomes :
        LET saved == Save(ps, file, outcome)
        IN  /\ Hold(m, ps)
            /\ file' = saved.file
            /\ saveRet' = IF saved.ret THEN "true" ELSE "false"
            /\ failures' = IF saved.ret THEN failures ELSE failures + 1
            /\ call' = c
            /\ result' = Ret(TRUE, msg, sku)
            /\ answer' = NoAnswer
            /\ UNCHANGED <<backupFile, raised>>

\* the constructor call with description and supplier passed the wrong way
\* round
NewProduct_Swapped(a, token, t) ==
    [sku |-> token, name |-> a.name, category |-> a.category,
     price |-> a.price, quantity |-> a.quantity,
     description |-> IF a.supplier = None THEN "" ELSE a.supplier[1],
     reorder_level |-> IF a.reorder_level = None THEN DefaultReorderLevel
                       ELSE a.reorder_level[1],
     supplier |-> IF a.description = None THEN "" ELSE a.description[1],
     created_at |-> t, updated_at |-> t]

\* the Product(...) that add_product constructs; token is the value of the
\* sku default_factory and t the reading of the timestamp factories
NewProduct(a, token, t) ==
    [sku |-> token, name |-> a.name, category |-> a.category,
     price |-> a.price, quantity |-> a.quantity,
     description |-> IF a.description = None THEN "" ELSE a.description[1],
     reorder_level |-> IF a.reorder_level = None THEN DefaultReorderLevel
                       ELSE a.reorder_level[1],
     supplier |-> IF a.supplier = None THEN "" ELSE a.supplier[1],
     created_at |-> t, updated_at |-> t]

\* `if sku:` is false for None and for ""
Truthy(opt) == opt # None /\ opt[1] # ""

\* the SKU add_product stores the product under
AssignedSku(a, token) == IF Truthy(a.sku) THEN a.sku[1] ELSE token

\* add_product without its duplicate check
IsDuplicate_Unchecked(ps, a) == FALSE

\* the duplicate check of add_product
IsDuplicate(ps, a) == Truthy(a.sku) /\ a.sku[1] \in Keys(ps)

\* InventoryManager.add_product, called on instance m with arguments of
\* argsSet
AddProductBy(m, argsSet) ==
    /\ now < MaxTime
    /\ now' = now + 1
    /\ \E a \in argsSet, token \in SkuTokens :
        LET c == Call("add", "", a, 0)
            product == [NewProduct(a, token, now') EXCEPT
                            !.sku = AssignedSku(a, token)]
            err == PostInit(product)
        IN  IF err # "" THEN Fails(m, c, Held(m), err, "")
            ELSE IF IsDuplicate(Held(m), a)
                 THEN Fails(m, c, Held(m), MsgExists, a.sku[1])
            ELSE SaveAndSucceed(m, c, DictPut(Held(m), product.sku, product),
                                MsgAdded, product.sku)

AddProduct ==
    /\ ~raised
    /\ AddProductBy("A", AddArgs)

\* a block of update_product that empties a description or supplier that is
\* left out
SetField_ClearsOmitted(st, f, opt, bad, msg) ==
    IF st.msg # "" THEN st
    ELSE IF opt = None
    THEN IF f \in {"description", "supplier"}
         THEN [st EXCEPT !.p = [st.p EXCEPT ![f] = ""]]
         ELSE st
    ELSE IF bad THEN [st EXCEPT !.msg = msg]
    ELSE [st EXCEPT !.p = [st.p EXCEPT ![f] = opt[1]]]

\* one `if x is not None:` block of update_product: st is the product so
\* far and the message returned so far ("" while none is)
SetField(st, f, opt, bad, msg) ==
    IF st.msg # "" \/ opt = None THEN st
    ELSE IF bad THEN [st EXCEPT !.msg = msg]
    ELSE [st EXCEPT !.p = [st.p EXCEPT ![f] = opt[1]]]

\* the body of update_product up to update_timestamp: the product it
\* leaves in the dict and the message it returns early with, "" for none
UpdateFields(p, a) ==
    LET s0 == [p |-> p, msg |-> ""]
        s1 == SetField(s0, "name", a.name, IsEmpty(a.name), MsgName)
        s2 == SetField(s1, "category", a.category, IsEmpty(a.category), MsgCategory)
        s3 == SetField(s2, "price", a.price, IsNegativePrice(a.price), MsgPrice)
        s4 == SetField(s3, "quantity", a.quantity, IsNegative(a.quantity), MsgQuantity)
        s5 == SetField(s4, "description", a.description, FALSE, "")
        s6 == SetField(s5, "reorder_level", a.reorder_level,
                       IsNegative(a.reorder_level), MsgReorder)
        s7 == SetField(s6, "supplier", a.supplier, FALSE, "")
    IN  s7

\* InventoryManager.update_product, called on instance m with keyword
\* arguments of argsSet
UpdateProductBy(m, argsSet) ==
    /\ now < MaxTime
    /\ now' = now + 1
    /\ \E sku \in CallerSkus, a \in argsSet :
        LET c == Call("update", sku, a, 0)
        IN  IF sku \notin Keys(Held(m))
            THEN Fails(m, c, Held(m), MsgNotFound, sku)
            ELSE LET st == UpdateFields(DictAt(Held(m), sku), a)
                 IN  IF st.msg # ""
                     THEN Fails(m, c, DictPut(Held(m), sku, st.p), st.msg, "")
                     ELSE SaveAndSucceed(
                              m, c,
                              DictPut(Held(m), sku, UpdateTimestamp(st.p, now')),
                              MsgUpdated, sku)

UpdateProduct ==
    /\ ~raised
    /\ UpdateProductBy("A", UpdateArgs)

\* InventoryManager.delete_product, called on instance m
DeleteProductBy(m) ==
    /\ now < MaxTime
    /\ now' = now + 1
    /\ \E sku \in CallerSkus :
        LET c == Call("delete", sku, NoArgs, 0)
        IN  IF sku \notin Keys(Held(m))
            THEN Fails(m, c, Held(m), MsgNotFound, sku)
            ELSE SaveAndSucceed(m, c, DictDel(Held(m), sku), MsgDeleted, sku)

DeleteProduct ==
    /\ ~raised
    /\ DeleteProductBy("A")

\* remove_stock without its stock check
Insufficient_Unchecked(p, quantity) == FALSE

\* add_stock with `=` for `+=`
StockAdded_Assign(ps, sku, quantity, t) ==
    IF sku \notin Keys(ps) THEN [msg |-> MsgNotFound, products |-> ps]
    ELSE IF quantity <= 0 THEN [msg |-> MsgAddPositive, products |-> ps]
    ELSE LET p == DictAt(ps, sku)
             q == [p EXCEPT !.quantity = quantity]
         IN  [msg |-> "", products |-> DictPut(ps, sku, UpdateTimestamp(q, t))]

\* add_stock with `<` for `<=` in its amount check
StockAdded_ZeroAllowed(ps, sku, quantity, t) ==
    IF sku \notin Keys(ps) THEN [msg |-> MsgNotFound, products |-> ps]
    ELSE IF quantity < 0 THEN [msg |-> MsgAddPositive, products |-> ps]
    ELSE LET p == DictAt(ps, sku)
             q == [p EXCEPT !.quantity = p.quantity + quantity]
         IN  [msg |-> "", products |-> DictPut(ps, sku, UpdateTimestamp(q, t))]

\* the guard `quantity > product.quantity` of remove_stock
Insufficient(p, quantity) == quantity > p.quantity

\* the body of add_stock on dict ps at clock reading t: the message it
\* returns early with ("" for none) and the dict it leaves
StockAdded(ps, sku, quantity, t) ==
    IF sku \notin Keys(ps) THEN [msg |-> MsgNotFound, products |-> ps]
    ELSE IF quantity <= 0 THEN [msg |-> MsgAddPositive, products |-> ps]
    ELSE LET p == DictAt(ps, sku)
             q == [p EXCEPT !.quantity = p.quantity + quantity]
         IN  [msg |-> "", products |-> DictPut(ps, sku, UpdateTimestamp(q, t))]

\* remove_stock with its amount check moved before its SKU check
StockRemoved_AmountFirst(ps, sku, quantity, t) ==
    IF quantity <= 0 THEN [msg |-> MsgRemovePositive, products |-> ps]
    ELSE IF sku \notin Keys(ps) THEN [msg |-> MsgNotFound, products |-> ps]
    ELSE IF Insufficient(DictAt(ps, sku), quantity)
    THEN [msg |-> MsgInsufficient, products |-> ps]
    ELSE LET p == DictAt(ps, sku)
             q == [p EXCEPT !.quantity = p.quantity - quantity]
         IN  [msg |-> "", products |-> DictPut(ps, sku, UpdateTimestamp(q, t))]

\* the body of remove_stock, likewise
StockRemoved(ps, sku, quantity, t) ==
    IF sku \notin Keys(ps) THEN [msg |-> MsgNotFound, products |-> ps]
    ELSE IF quantity <= 0 THEN [msg |-> MsgRemovePositive, products |-> ps]
    ELSE IF Insufficient(DictAt(ps, sku), quantity)
    THEN [msg |-> MsgInsufficient, products |-> ps]
    ELSE LET p == DictAt(ps, sku)
             q == [p EXCEPT !.quantity = p.quantity - quantity]
         IN  [msg |-> "", products |-> DictPut(ps, sku, UpdateTimestamp(q, t))]

\* the SKU a message names
NamedSku(msg, sku) == IF msg = MsgNotFound THEN sku ELSE ""

\* InventoryManager.add_stock, called on instance m with an amount of
\* amounts
AddStockBy(m, amounts) ==
    /\ now < MaxTime
    /\ now' = now + 1
    /\ \E sku \in CallerSkus, quantity \in amounts :
        LET c == Call("add_stock", sku, NoArgs, quantity)
            r == StockAdded(Held(m), sku, quantity, now')
        IN  IF r.msg # ""
            THEN Fails(m, c, r.products, r.msg, NamedSku(r.msg, sku))
            ELSE SaveAndSucceed(m, c, r.products, MsgStockAdded, "")

AddStock ==
    /\ ~raised
    /\ AddStockBy("A", Amounts)

\* InventoryManager.remove_stock, called on instance m with an amount of
\* amounts
RemoveStockBy(m, amounts) ==
    /\ now < MaxTime
    /\ now' = now + 1
    /\ \E sku \in CallerSkus, quantity \in amounts :
        LET c == Call("remove_stock", sku, NoArgs, quantity)
            r == StockRemoved(Held(m), sku, quantity, now')
        IN  IF r.msg # ""
            THEN Fails(m, c, r.products, r.msg, NamedSku(r.msg, sku))
            ELSE SaveAndSucceed(m, c, r.products, MsgStockRemoved, "")

RemoveStock ==
    /\ ~raised
    /\ RemoveStockBy("A", Amounts)

\* InventoryManager.clear_all, called on instance m
ClearAllBy(m) ==
    /\ now < MaxTime
    /\ now' = now + 1
    /\ SaveAndSucceed(m, Call("clear_all", "", NoArgs, 0), <<>>, MsgCleared, "")

ClearAll ==
    /\ ~raised
    /\ ClearAllBy("A")

\* InventoryStorage.backup: the backup file it leaves and the value it
\* returns; a copy that fails leaves the backup file as it was when the
\* data file cannot be read or the backup file cannot be opened, and
\* truncated when a write fails
BackupCopy(f, bak, outcome) ==
    IF f.kind = "missing" THEN [backup |-> bak, ret |-> FALSE]
    ELSE IF outcome = "ok" THEN [backup |-> TextCopy(f), ret |-> TRUE]
    ELSE IF outcome = "open_error" THEN [backup |-> bak, ret |-> FALSE]
    ELSE [backup |-> FileTruncated, ret |-> FALSE]

\* InventoryManager.backup
Backup ==
    /\ ~raised
    /\ now < MaxTime
    /\ now' = now + 1
    /\ \E outcome \in Outcomes :
        LET copied == BackupCopy(file, backupFile, outcome)
        IN  /\ backupFile' = copied.backup
            /\ failures' = IF outcome = "ok" \/ file.kind = "missing"
                           THEN failures ELSE failures + 1
            /\ call' = Call("backup", "", NoArgs, 0)
            /\ result' = Ret(copied.ret,
                             IF copied.ret THEN MsgBackupOk ELSE MsgBackupFailed, "")
            /\ saveRet' = "none"
            /\ answer' = NoAnswer
            /\ self' = "A"
            /\ UNCHANGED <<products, productsB, file, raised>>

\* InventoryManager.get_product: None, or the product
GetProduct(ps, sku) == IF sku \in Keys(ps) THEN Some(DictAt(ps, sku)) ELSE None

\* InventoryManager.get_all_products
GetAllProducts(ps) == Values(ps)

\* str.lower(), on the strings of the model
Lower(str) ==
    CASE str = "Widget" -> "widget"
      [] str = "Gadget" -> "gadget"
      [] str = "Hardware" -> "hardware"
      [] str = "HARDWARE" -> "hardware"
      [] str = "Tools" -> "tools"
      [] str = "Acme" -> "acme"
      [] str = "ACME" -> "acme"
      [] str = "Bolt" -> "bolt"
      [] OTHER -> str

\* `sub in str`, on the lower-case strings of the model
Within(sub, str) ==
    \/ sub = ""
    \/ sub = str
    \/ <<sub, str>> \in {<<"dget", "widget">>, <<"dget", "gadget">>}

\* the strings the search methods are called with
NameQueries == {"dget"}
CategoryQueries == {"HARDWARE"}
SupplierQueries == {"ACME"}

\* InventoryManager.search_by_name
SearchByName(ps, query) ==
    LET hit(p) == Within(Lower(query), Lower(p.name))
    IN  SelectSeq(Values(ps), hit)

\* InventoryManager.search_by_category
SearchByCategory(ps, category) ==
    LET hit(p) == Lower(p.category) = Lower(category)
    IN  SelectSeq(Values(ps), hit)

\* InventoryManager.search_by_supplier
SearchBySupplier(ps, supplier) ==
    LET hit(p) == Within(Lower(supplier), Lower(p.supplier))
    IN  SelectSeq(Values(ps), hit)

\* InventoryManager.get_low_stock_products
GetLowStockProducts(ps) == SelectSeq(Values(ps), IsLowStock)

\* InventoryManager.get_out_of_stock_products
GetOutOfStockProducts(ps) ==
    LET out(p) == p.quantity = 0
    IN  SelectSeq(Values(ps), out)

\* the category strings of the model, as sorted() orders them
SortedCategories == <<"Hardware", "Tools">>

\* InventoryManager.get_categories
GetCategories(ps) ==
    LET held(c) == \E i \in 1..Len(ps) : ps[i].val.category = c
    IN  SelectSeq(SortedCategories, held)

\* sum(...) over a list of floats, from the int 0
RECURSIVE FloatSum(_)
FloatSum(list) ==
    IF list = <<>> THEN Float(0)
    ELSE FloatPlus(FloatSum(SubSeq(list, 1, Len(list) - 1)), list[Len(list)])

\* InventoryManager.get_total_inventory_value
GetTotalInventoryValue(ps) ==
    FloatSum([i \in 1..Len(ps) |-> TotalValue(ps[i].val)])

\* the loop of get_inventory_value_by_category over a list of products:
\* values is the dict so far
RECURSIVE ValuesByCategory(_, _)
ValuesByCategory(list, values) ==
    IF list = <<>> THEN values
    ELSE LET product == Head(list)
             started == IF product.category \in Keys(values) THEN values
                        ELSE DictPut(values, product.category, Float(0))
             sum == FloatPlus(DictAt(started, product.category),
                              TotalValue(product))
         IN  ValuesByCategory(Tail(list),
                              DictPut(started, product.category, sum))

\* InventoryManager.get_inventory_value_by_category
GetInventoryValueByCategory(ps) == ValuesByCategory(Values(ps), <<>>)

\* InventoryManager.get_product_count
GetProductCount(ps) == Len(ps)

\* InventoryManager.get_total_stock_count
RECURSIVE GetTotalStockCount(_)
GetTotalStockCount(ps) ==
    IF ps = <<>> THEN 0
    ELSE GetTotalStockCount(SubSeq(ps, 1, Len(ps) - 1)) + ps[Len(ps)].val.quantity

\* InventoryManager.generate_inventory_report at clock reading t: the
\* values its lines are formatted from; the low stock and out of stock
\* sections are left out when their lists are empty
GenerateInventoryReport(ps, t) ==
    LET values == GetInventoryValueByCategory(ps)
        ofCategory(c) == [key |-> c, val |-> DictAt(values, c)]
        sorted == GetCategories(ps)
    IN  [generated |-> t,
         total_products |-> GetProductCount(ps),
         total_stock |-> GetTotalStockCount(ps),
         total_value |-> GetTotalInventoryValue(ps),
         by_category |-> [i \in 1..Len(sorted) |-> ofCategory(sorted[i])],
         low_stock |-> GetLowStockProducts(ps),
         out_of_stock |-> GetOutOfStockProducts(ps)]

\* a read method that saves the collection before it returns
Read_Saving(c, value) ==
    /\ now < MaxTime
    /\ now' = now + 1
    /\ call' = c
    /\ answer' = value
    /\ result' = Ret(TRUE, "", "")
    /\ saveRet' = "true"
    /\ file' = Save(products, file, "ok").file
    /\ self' = "A"
    /\ UNCHANGED <<products, productsB, backupFile, raised, failures>>

\* a method of a constructed manager that returns a value computed from
\* self.products and assigns nothing: call c returns value
Read(c, value) ==
    /\ now < MaxTime
    /\ now' = now + 1
    /\ call' = c
    /\ answer' = value
    /\ result' = Ret(TRUE, "", "")
    /\ saveRet' = "none"
    /\ self' = "A"
    /\ UNCHANGED <<products, productsB, file, backupFile, raised, failures>>

\* the read operations of InventoryManager
Get ==
    /\ ~raised
    /\ \E sku \in CallerSkus :
        Read(Call("get", sku, NoArgs, 0), GetProduct(products, sku))

ListAll ==
    /\ ~raised
    /\ Read(Call("list_all", "", NoArgs, 0), GetAllProducts(products))

SearchName ==
    /\ ~raised
    /\ \E query \in NameQueries :
        Read(Call("search_by_name", "", <<query>>, 0),
             SearchByName(products, query))

SearchCategory ==
    /\ ~raised
    /\ \E category \in CategoryQueries :
        Read(Call("search_by_category", "", <<category>>, 0),
             SearchByCategory(products, category))

SearchSupplier ==
    /\ ~raised
    /\ \E supplier \in SupplierQueries :
        Read(Call("search_by_supplier", "", <<supplier>>, 0),
             SearchBySupplier(products, supplier))

LowStock ==
    /\ ~raised
    /\ Read(Call("low_stock", "", NoArgs, 0), GetLowStockProducts(products))

OutOfStock ==
    /\ ~raised
    /\ Read(Call("out_of_stock", "", NoArgs, 0),
            GetOutOfStockProducts(products))

Categories ==
    /\ ~raised
    /\ Read(Call("categories", "", NoArgs, 0), GetCategories(products))

TotalInventoryValue ==
    /\ ~raised
    /\ Read(Call("total_value", "", NoArgs, 0),
            GetTotalInventoryValue(products))

ValueByCategory ==
    /\ ~raised
    /\ Read(Call("value_by_category", "", NoArgs, 0),
            GetInventoryValueByCategory(products))

Report ==
    /\ ~raised
    /\ Read(Call("report", "", NoArgs, 0),
            GenerateInventoryReport(products, now'))

\* a new manager is constructed on the same file
NewManager ==
    /\ now < MaxTime
    /\ now' = now + 1
    /\ Construct(file, now')
    /\ UNCHANGED <<file, backupFile, failures>>

Init ==
    /\ now = 0
    /\ backupFile = FileMissing
    /\ failures = 0
    /\ \E f \in InitialFiles :
        LET loaded == Load(f, 0)
        IN  /\ file = f
            /\ products = loaded.products
            /\ raised = loaded.raised
            /\ call = Call("construct", "", NoArgs, 0)
            /\ result = Ret(~loaded.raised, "", "")
            /\ saveRet = "none"
            /\ answer = NoAnswer
            /\ self = "A"
            /\ productsB = <<>>

Next ==
    \/ NewManager
    \/ AddProduct
    \/ UpdateProduct
    \/ DeleteProduct
    \/ AddStock
    \/ RemoveStock
    \/ ClearAll
    \/ Backup
    \/ Get
    \/ ListAll
    \/ SearchName
    \/ SearchCategory
    \/ SearchSupplier
    \/ LowStock
    \/ OutOfStock
    \/ Categories
    \/ TotalInventoryValue
    \/ ValueByCategory
    \/ Report

Spec == Init /\ [][Next]_vars

\* ------------------------------------------- two managers on the same file
\* a record as save writes it, with all ten keys
FullEntry ==
    [sku |-> "X1", name |-> "Widget", category |-> "Hardware",
     price |-> Float(5), quantity |-> 1, description |-> "",
     reorder_level |-> DefaultReorderLevel, supplier |-> "", created_at |-> 0,
     updated_at |-> 0]

\* the files the two managers are constructed on
TwoFiles == {FileMissing, FileJson(<<FullEntry>>)}

\* the calls made on either of them
TwoAddArgs == {BaseAdd, [BaseAdd EXCEPT !.sku = Some("X1")]}

NoUpdate == [f \in UpdateFieldNames |-> None]

TwoUpdateArgs ==
    {[NoUpdate EXCEPT !.name = Some("Gadget")],
     [NoUpdate EXCEPT !.name = Some("Gadget"), !.category = Some("")]}

TwoAmounts == {1}

\* instances A and B have been constructed on the same file, one after the
\* other, before any other call
TwoInit ==
    /\ now = 0
    /\ backupFile = FileMissing
    /\ failures = 0
    /\ \E f \in TwoFiles :
        LET loaded == Load(f, 0)
        IN  /\ file = f
            /\ products = loaded.products
            /\ productsB = loaded.products
            /\ raised = loaded.raised
            /\ call = Call("construct", "", NoArgs, 0)
            /\ result = Ret(~loaded.raised, "", "")
            /\ saveRet = "none"
            /\ answer = NoAnswer
            /\ self = "B"

TwoAddProduct ==
    /\ ~raised
    /\ \E m \in Instances : AddProductBy(m, TwoAddArgs)

TwoUpdateProduct ==
    /\ ~raised
    /\ \E m \in Instances : UpdateProductBy(m, TwoUpdateArgs)

TwoDeleteProduct ==
    /\ ~raised
    /\ \E m \in Instances : DeleteProductBy(m)

TwoAddStock ==
    /\ ~raised
    /\ \E m \in Instances : AddStockBy(m, TwoAmounts)

TwoRemoveStock ==
    /\ ~raised
    /\ \E m \in Instances : RemoveStockBy(m, TwoAmounts)

TwoClearAll ==
    /\ ~raised
    /\ \E m \in Instances : ClearAllBy(m)

TwoNext ==
    \/ TwoAddProduct
    \/ TwoUpdateProduct
    \/ TwoDeleteProduct
    \/ TwoAddStock
    \/ TwoRemoveStock
    \/ TwoClearAll

SpecTwoManagers == TwoInit /\ [][TwoNext]_vars

\* ----------------------------------- a manager on a file with two records
\* the record of an add_product call that passed no SKU, as save writes it
TokenEntry == [FullEntry EXCEPT !.sku = "1A2B3C4D"]

\* the file an earlier manager left after add_product(...) without a SKU
\* and add_product(..., sku="X1")
StoredFile == FileJson(<<TokenEntry, FullEntry>>)

\* a manager has been constructed on that file
StoredInit ==
    /\ now = 0
    /\ backupFile = FileMissing
    /\ failures = 0
    /\ file = StoredFile
    /\ products = Load(StoredFile, 0).products
    /\ raised = Load(StoredFile, 0).raised
    /\ call = Call("construct", "", NoArgs, 0)
    /\ result = Ret(~Load(StoredFile, 0).raised, "", "")
    /\ saveRet = "none"
    /\ answer = NoAnswer
    /\ self = "A"
    /\ productsB = <<>>

SpecStored == StoredInit /\ [][Next]_vars

\* ------------------------------------------------------------ cli.py
\* str.strip() and str.upper(), on the texts typed at the prompts
Strip(str) ==
    CASE str = " x1" -> "x1"
      [] str = " " -> ""
      [] OTHER -> str

Upper(str) ==
    CASE str = "x1" -> "X1"
      [] str = " x1" -> " X1"
      [] str = "yes" -> "YES"
      [] str = "no" -> "NO"
      [] OTHER -> str

\* int(text): the number, or None for the ValueError
ParseInt(text) ==
    CASE text = "0" -> Some(0)
      [] text = "1" -> Some(1)
      [] OTHER -> None

\* the texts typed at a SKU prompt, at the name prompts, at a quantity
\* prompt and at the confirmation prompt
TypedSkus == {"", "X1", "x1", " x1"}
TypedNames == {"", "Gadget"}
TypedQuantities == {"0", "1", "one"}
TypedConfirms == {"yes", "no"}

MsgCliName == "[!] Product name cannot be empty."
MsgCliQuantity == "[!] Invalid quantity."
MsgCliCancelled == "[i] Deletion cancelled."

\* `text if text else None`
OrNone(text) == IF text = "" THEN None ELSE Some(text)

\* the SKU the view, update, delete and stock prompts look up for a typed
\* text
PromptedSku(text) == Upper(Strip(text))

\* the arguments InventoryCLI._add_product passes to add_product for a typed
\* name and custom SKU, the other prompts answered Hardware, 5, 1, Enter,
\* Enter, Enter
CliAddArgs(name, text) ==
    [name |-> Strip(name), category |-> "Hardware", price |-> Float(5),
     quantity |-> 1, description |-> Some(""),
     reorder_level |-> Some(DefaultReorderLevel), supplier |-> Some(""),
     sku |-> OrNone(Strip(text))]

\* InventoryCLI._add_product
CliAddProduct ==
    /\ ~raised
    /\ \E name \in TypedNames, text \in TypedSkus :
        IF Strip(name) = ""
        THEN /\ now < MaxTime
             /\ now' = now + 1
             /\ Fails("A", Call("cli_add", "", <<text>>, 0), products,
                      MsgCliName, "")
        ELSE AddProductBy("A", {CliAddArgs(name, text)})

\* InventoryCLI._view_product
CliViewProduct ==
    /\ ~raised
    /\ \E text \in TypedSkus :
        LET sku == PromptedSku(text)
            c == Call("cli_view", sku, <<text>>, 0)
        IN  IF GetProduct(products, sku) = None
            THEN /\ now < MaxTime
                 /\ now' = now + 1
                 /\ Fails("A", c, products, MsgNotFound, sku)
            ELSE Read(c, GetProduct(products, sku))

\* InventoryCLI._update_product, every prompt but the name answered Enter
CliUpdateProduct ==
    /\ ~raised
    /\ now < MaxTime
    /\ now' = now + 1
    /\ \E text \in TypedSkus, name \in TypedNames :
        LET sku == PromptedSku(text)
            c == Call("cli_update", sku, <<text>>, 0)
            a == [NoUpdate EXCEPT !.name = OrNone(Strip(name))]
        IN  IF GetProduct(products, sku) = None
            THEN Fails("A", c, products, MsgNotFound, sku)
            ELSE LET st == UpdateFields(DictAt(products, sku), a)
                 IN  IF st.msg # ""
                     THEN Fails("A", c, DictPut(products, sku, st.p), st.msg, "")
                     ELSE SaveAndSucceed(
                              "A", c,
                              DictPut(products, sku, UpdateTimestamp(st.p, now')),
                              MsgUpdated, sku)

\* InventoryCLI._delete_product
CliDeleteProduct ==
    /\ ~raised
    /\ now < MaxTime
    /\ now' = now + 1
    /\ \E text \in TypedSkus, confirm \in TypedConfirms :
        LET sku == PromptedSku(text)
            c == Call("cli_delete", sku, <<text>>, 0)
        IN  IF GetProduct(products, sku) = None
            THEN Fails("A", c, products, MsgNotFound, sku)
            ELSE IF Lower(Strip(confirm)) # "yes"
            THEN Fails("A", c, products, MsgCliCancelled, "")
            ELSE SaveAndSucceed("A", c, DictDel(products, sku), MsgDeleted, sku)

\* InventoryCLI._add_stock
CliAddStock ==
    /\ ~raised
    /\ now < MaxTime
    /\ now' = now + 1
    /\ \E text \in TypedSkus, typed \in TypedQuantities :
        LET sku == PromptedSku(text)
            quantity == ParseInt(Strip(typed))
            c == Call("cli_add_stock", sku, <<text>>,
                      IF quantity = None THEN 0 ELSE quantity[1])
        IN  IF GetProduct(products, sku) = None
            THEN Fails("A", c, products, MsgNotFound, sku)
            ELSE IF quantity = None
            THEN Fails("A", c, products, MsgCliQuantity, "")
            ELSE LET r == StockAdded(products, sku, quantity[1], now')
                 IN  IF r.msg # ""
                     THEN Fails("A", c, r.products, r.msg, NamedSku(r.msg, sku))
                     ELSE SaveAndSucceed("A", c, r.products, MsgStockAdded, "")

\* InventoryCLI._remove_stock
CliRemoveStock ==
    /\ ~raised
    /\ now < MaxTime
    /\ now' = now + 1
    /\ \E text \in TypedSkus, typed \in TypedQuantities :
        LET sku == PromptedSku(text)
            quantity == ParseInt(Strip(typed))
            c == Call("cli_remove_stock", sku, <<text>>,
                      IF quantity = None THEN 0 ELSE quantity[1])
        IN  IF GetProduct(products, sku) = None
            THEN Fails("A", c, products, MsgNotFound, sku)
            ELSE IF quantity = None
            THEN Fails("A", c, products, MsgCliQuantity, "")
            ELSE LET r == StockRemoved(products, sku, quantity[1], now')
                 IN  IF r.msg # ""
                     THEN Fails("A", c, r.products, r.msg, NamedSku(r.msg, sku))
                     ELSE SaveAndSucceed("A", c, r.products, MsgStockRemoved, "")

\* the menu loop of InventoryCLI.run over these choices
CliNext ==
    \/ CliAddProduct
    \/ CliViewProduct
    \/ CliUpdateProduct
    \/ CliDeleteProduct
    \/ CliAddStock
    \/ CliRemoveStock

SpecCli == Init /\ [][CliNext]_vars

\* ------------------------------------------------------------ the claims
MutatingOps == {"add", "update", "delete", "add_stock", "remove_stock"}

ValidationMsgs == {MsgPrice, MsgQuantity, MsgReorder, MsgName, MsgCategory}

\* the attributes of a record other than its SKU and its timestamps
Attrs(p) ==
    <<p.name, p.category, p.price, p.quantity, p.description,
      p.reorder_level, p.supplier>>

\* C1: update on an existing SKU is all-or-nothing: when a supplied field
\* breaks a validation rule the call fails and the collection, and with it
\* every field of the stored record, is as it was before the call.
C1_UpdateAllOrNothing ==
    [][(/\ call'.op = "update"
        /\ call'.sku \in Keys(products)
        /\ UpdateInvalid(call'.args))
       => (~result'.ok /\ products' = products)]_vars

\* C2: a mutating manager operation returns success only if the store's
\* save of the collection returned true.
C2_SuccessOnlyIfSaved ==
    (call.op \in MutatingOps /\ result.ok) => saveRet = "true"

\* an entry of the product list that lacks a required field or holds a
\* value that breaks a validation rule
MalformedEntry(e) ==
    \/ ~({"name", "category", "price", "quantity"} \subseteq DOMAIN e)
    \/ FloatLess(e.price, 0) \/ e.quantity < 0 \/ e.name = ""
    \/ e.category = ""
    \/ ("reorder_level" \in DOMAIN e /\ e.reorder_level < 0)

FileIsBad(f) ==
    \/ f.kind \in {"missing", "empty", "corrupt", "truncated"}
    \/ \E i \in 1..Len(f.entries) : MalformedEntry(f.entries[i])

\* C3: constructing a manager (load) never raises, and on a file that is
\* missing, empty, not JSON or holds a malformed entry it yields the empty
\* collection.
C3_BadFileLoadsEmpty ==
    call.op = "construct" =>
        (~raised /\ (FileIsBad(file) => products = <<>>))

\* C4: a successful add stores the new record under a SKU that was not in
\* the collection: the count grows by one and every earlier record is still
\* there, unchanged.
C4_AddNeverReplaces ==
    [][(call'.op = "add" /\ result'.ok)
       => (/\ result'.sku \notin Keys(products)
           /\ Len(products') = Len(products) + 1
           /\ \A k \in Keys(products) :
                /\ k \in Keys(products')
                /\ DictAt(products', k) = DictAt(products, k))]_vars

\* C5: a step that changes an attribute of a stored record refreshes the
\* record's updated_at, so a record whose updated_at is the same before and
\* after a step has the same attributes; and update, add_stock and
\* remove_stock leave created_at as it was.
C5_ChangeRefreshesUpdatedAt ==
    [][\A k \in Keys(products) \cap Keys(products') :
        LET p == DictAt(products, k)
            q == DictAt(products', k)
        IN  /\ q.updated_at = p.updated_at => Attrs(q) = Attrs(p)
            /\ call'.op \in {"update", "add_stock", "remove_stock"}
                 => q.created_at = p.created_at]_vars

\* an add_product call whose field values keep every validation rule
AddValid(a) ==
    /\ a.name # "" /\ a.category # ""
    /\ FloatAtLeast(a.price, 0) /\ a.quantity >= 0
    /\ (a.reorder_level # None => a.reorder_level[1] >= 0)

\* an add_product call with a negative price, quantity or reorder_level, or
\* an empty name or category
AddInvalid(a) ==
    \/ a.name = "" \/ a.category = ""
    \/ FloatLess(a.price, 0) \/ a.quantity < 0
    \/ (a.reorder_level # None /\ a.reorder_level[1] < 0)

\* an add_product call passes a SKU, other than "", that d holds
ExplicitSkuIn(a, d) == a.sku # None /\ a.sku[1] # "" /\ a.sku[1] \in Keys(d)

OrDefault(opt, default) == IF opt = None THEN default ELSE opt[1]

\* C6: add with valid field values (and no SKU of the collection) succeeds,
\* and get with the SKU it reports, the explicit one when one was passed,
\* returns a record whose fields are the inputs, with "" for an omitted
\* description or supplier and 10 for an omitted reorder_level.
C6_AddThenGet ==
    [][(/\ call'.op = "add"
        /\ AddValid(call'.args)
        /\ ~ExplicitSkuIn(call'.args, products))
       => LET a == call'.args
              got == GetProduct(products', result'.sku)
          IN  /\ result'.ok
              /\ (a.sku # None /\ a.sku[1] # "") => result'.sku = a.sku[1]
              /\ got # None
              /\ got[1].sku = result'.sku
              /\ got[1].name = a.name
              /\ got[1].category = a.category
              /\ got[1].price = a.price
              /\ got[1].quantity = a.quantity
              /\ got[1].description = OrDefault(a.description, "")
              /\ got[1].reorder_level = OrDefault(a.reorder_level, 10)
              /\ got[1].supplier = OrDefault(a.supplier, "")]_vars

\* an add with every optional argument omitted has succeeded, and the record
\* under the generated SKU holds the defaults
C6_Witness ==
    /\ call.op = "add" /\ result.ok
    /\ call.args.sku = None /\ call.args.reorder_level = None
    /\ call.args.description = None /\ call.args.supplier = None
    /\ result.sku \in SkuTokens
    /\ GetProduct(products, result.sku) # None
    /\ GetProduct(products, result.sku)[1].reorder_level = 10

\* C7 as claimed: add with an explicit SKU of the collection fails with the
\* 'already exists' result, whatever the other arguments are, and changes
\* neither the collection nor the file.
C7_DuplicateAlwaysAlreadyExists ==
    [][(call'.op = "add" /\ ExplicitSkuIn(call'.args, products))
       => (/\ ~result'.ok
           /\ result'.msg = MsgExists
           /\ products' = products
           /\ file' = file
           /\ saveRet' = "none")]_vars

\* C7 as amended: add with an explicit SKU of the collection fails, with the
\* 'already exists' result naming that SKU when the field values are valid
\* and with a validation message when they are not; the collection (its
\* size, the record under that SKU) and the file are unchanged and nothing
\* is saved.
C7_DuplicateRejected ==
    [][(call'.op = "add" /\ ExplicitSkuIn(call'.args, products))
       => (/\ ~result'.ok
           /\ ~AddInvalid(call'.args)
                => (result'.msg = MsgExists /\ result'.sku = call'.args.sku[1])
           /\ AddInvalid(call'.args) => result'.msg \in ValidationMsgs
           /\ Len(products') = Len(products)
           /\ products' = products
           /\ file' = file
           /\ saveRet' = "none")]_vars

\* an add with valid fields and the SKU of a stored record has been rejected
C7_Witness ==
    /\ call.op = "add" /\ ~result.ok
    /\ AddValid(call.args)
    /\ call.args.sku = Some("X1")
    /\ result.msg = MsgExists
    /\ "X1" \in Keys(products)

\* C8: add with a negative price, quantity or reorder_level, or an empty
\* name or category, fails with a validation message and leaves the
\* collection and the file as they were, saving nothing.
C8_InvalidAddRejected ==
    [][(call'.op = "add" /\ AddInvalid(call'.args))
       => (/\ ~result'.ok
           /\ result'.msg \in ValidationMsgs
           /\ FloatLess(call'.args.price, 0) => result'.msg = MsgPrice
           /\ products' = products
           /\ file' = file
           /\ saveRet' = "none")]_vars

\* an add with a negative reorder_level has been rejected by a manager that
\* holds a record
C8_Witness ==
    /\ call.op = "add" /\ ~result.ok
    /\ call.args.reorder_level = Some(-1)
    /\ result.msg = MsgReorder
    /\ Len(products) > 0

\* C9: remove_stock(sku, q) on an existing SKU fails and leaves the quantity
\* as it was when q exceeds it or q <= 0, and succeeds with quantity old - q
\* when 0 < q <= old; the quantity is never negative afterwards.
C9_RemoveStock ==
    [][(call'.op = "remove_stock" /\ call'.sku \in Keys(products))
       => LET old == DictAt(products, call'.sku).quantity
              new == DictAt(products', call'.sku).quantity
              q == call'.amount
          IN  /\ call'.sku \in Keys(products')
              /\ q > old => (~result'.ok /\ new = old)
              /\ q <= 0 => (~result'.ok /\ new = old)
              /\ (0 < q /\ q <= old) => (result'.ok /\ new = old - q)
              /\ new >= 0]_vars

\* a remove_stock of the whole stock has succeeded and left 0
C9_Witness ==
    /\ call.op = "remove_stock" /\ result.ok
    /\ call.amount > 0
    /\ DictAt(products, call.sku).quantity = 0

\* d2 is d1 but for the updated_at of the record under sku
SameButUpdatedAt(d1, d2, sku) ==
    /\ Len(d2) = Len(d1)
    /\ \A i \in 1..Len(d1) :
        /\ d2[i].key = d1[i].key
        /\ IF d1[i].key = sku
           THEN [d2[i].val EXCEPT !.updated_at = d1[i].val.updated_at] = d1[i].val
           ELSE d2[i].val = d1[i].val

\* C10: in every state, for every stored SKU and every q > 0, add_stock(sku,
\* q) and then remove_stock(sku, q) both succeed and leave the collection
\* as it was but for that record's updated_at.
C10_StockRoundTrip ==
    \A sku \in Keys(products), q \in {n \in Amounts : n > 0} :
        LET added == StockAdded(products, sku, q, now + 1)
            removed == StockRemoved(added.products, sku, q, now + 2)
        IN  /\ added.msg = ""
            /\ removed.msg = ""
            /\ DictAt(added.products, sku).quantity
                 = DictAt(products, sku).quantity + q
            /\ SameButUpdatedAt(products, removed.products, sku)

\* remove_stock(X1, 2) has succeeded right after add_stock(X1, 2) on the
\* record loaded with quantity 1: only add_stock(X1, 2) takes it to 3
C10_Witness ==
    /\ call.op = "remove_stock" /\ result.ok
    /\ call.sku = "X1" /\ call.amount = 2
    /\ now = 2
    /\ "X1" \in Keys(products)
    /\ DictAt(products, "X1").quantity = 1
    /\ DictAt(products, "X1").created_at = 0
    /\ DictAt(products, "X1").updated_at = 2
    /\ Len(products) = 1

\* a record that keeps the five rules of the data model
ValidRecord(p) ==
    /\ FloatAtLeast(p.price, 0) /\ p.quantity >= 0 /\ p.reorder_level >= 0
    /\ p.name # "" /\ p.category # ""

\* C11: for the collection of every reachable state whose records are
\* valid, the empty one included, save(collection) without an I/O error and
\* then load() on the same path does not raise and returns a collection with
\* the same SKU keys, in the same number, and under each SKU a record equal
\* in all ten fields.
C11_SaveLoadRoundTrip ==
    LET loaded == Load(Save(products, file, "ok").file, now + 1)
    IN  (\A i \in 1..Len(products) : ValidRecord(products[i].val)) =>
        /\ ~loaded.raised
        /\ Keys(loaded.products) = Keys(products)
        /\ Len(loaded.products) = Len(products)
        /\ \A k \in Keys(products) :
            LET p == DictAt(products, k)
                q == DictAt(loaded.products, k)
            IN  /\ q.sku = p.sku /\ q.name = p.name
                /\ q.category = p.category /\ q.price = p.price
                /\ q.quantity = p.quantity /\ q.description = p.description
                /\ q.reorder_level = p.reorder_level
                /\ q.supplier = p.supplier
                /\ q.created_at = p.created_at
                /\ q.updated_at = p.updated_at

\* a manager has been constructed on the file that the save of a two-record
\* collection wrote, one record with a supplier and one loaded with defaults
C11_Witness ==
    /\ call.op = "construct" /\ now = 2
    /\ file = Save(products, file, "ok").file
    /\ Len(products) = 2
    /\ \E i \in 1..Len(products) : products[i].val.supplier = "Acme"
    /\ \E i \in 1..Len(products) : products[i].val.created_at = 0

\* the records a list holds
Listed(list) == {list[i] : i \in 1..Len(list)}

C13_BackupIdentical ==
    [][(call'.op = "backup" /\ failures' = failures)
       => IF file.kind # "missing"
          THEN result'.ok /\ backupFile' = file
          ELSE /\ ~result'.ok /\ ~raised'
               /\ backupFile' = backupFile
               /\ backupFile' = FileMissing]_vars

\* C14: in every state every stored record has price >= 0, quantity >= 0,
\* reorder_level >= 0, a name other than "" and a category other than "".
C14_StoredRecordsValid ==
    \A i \in 1..Len(products) : ValidRecord(products[i].val)

\* C15: update, delete, add_stock and remove_stock with a SKU that is not
\* in the collection return failure with the 'not found' message naming
\* that SKU, whatever the other arguments are, and leave the collection and
\* the file as they were, saving nothing.
C15_UnknownSkuNotFound ==
    [][(/\ call'.op \in {"update", "delete", "add_stock", "remove_stock"}
        /\ call'.sku \notin Keys(products))
       => (/\ ~result'.ok
           /\ result'.msg = MsgNotFound
           /\ result'.sku = call'.sku
           /\ products' = products
           /\ file' = file
           /\ saveRet' = "none")]_vars

\* remove_stock with an amount that is not positive and a SKU that a
\* collection holding another record lacks has returned 'not found'
C15_Witness ==
    /\ call.op = "remove_stock" /\ call.amount <= 0
    /\ ~result.ok /\ result.msg = MsgNotFound
    /\ Len(products) > 0
    /\ call.sku \notin Keys(products)

\* the SKUs of the entries a file holds
FileSkus(f) == {f.entries[i].sku : i \in 1..Len(f.entries)}

\* what delete(sku) on an existing SKU does in memory: it succeeds, get(sku)
\* then returns None, the count is one less and every other record is as
\* it was
DeletedInMemory ==
    /\ result'.ok
    /\ GetProduct(products', call'.sku) = None
    /\ Len(products') = Len(products) - 1
    /\ \A k \in Keys(products) \ {call'.sku} :
        /\ k \in Keys(products')
        /\ DictAt(products', k) = DictAt(products, k)

C17_PersistsAcrossManagers ==
    [][(/\ call.op \in MutatingOps /\ result.ok /\ saveRet = "true"
        /\ call'.op = "construct")
       => (/\ ~raised'
           /\ Len(products') = Len(products)
           /\ Keys(products') = Keys(products)
           /\ \A k \in Keys(products) :
                DictAt(products', k) = DictAt(products, k))]_vars

\* a manager has been constructed on the file right after an update renamed
\* a record and saved it
C17_Witness ==
    /\ call.op = "construct" /\ now = 2 /\ ~raised
    /\ \E i \in 1..Len(products) :
        /\ products[i].val.name = "Gadget"
        /\ products[i].val.updated_at = 1
        /\ products[i].val.created_at = 0
    /\ file = Save(products, file, "ok").file

ReadOps ==
    {"get", "list_all", "search_by_name", "search_by_category",
     "search_by_supplier", "low_stock", "out_of_stock", "categories",
     "total_value", "value_by_category", "report"}

\* C18: a read operation saves nothing and loads nothing: the collection,
\* the data file and the backup file are after it as they were before.
C18_ReadsChangeNothing ==
    [][call'.op \in ReadOps
       => (/\ saveRet' = "none"
           /\ products' = products
           /\ file' = file
           /\ backupFile' = backupFile)]_vars

\* low_stock() has returned a record of a collection that a failed update
\* left different from what the file holds, and the file is as it was
C18_Witness ==
    /\ call.op = "low_stock" /\ now = 2
    /\ Len(answer) = 1
    /\ answer[1].name = "Gadget"
    /\ file = FileJson(<<MinimalEntry>>)
    /\ Load(file, now).products # products

\* C19: add_stock(sku, q) on an existing SKU fails and leaves the quantity,
\* and the collection, as it was when q <= 0; when q > 0 it succeeds and the
\* quantity is old + q; either way the keys and every other record are as
\* they were.
C19_AddStock ==
    [][(call'.op = "add_stock" /\ call'.sku \in Keys(products))
       => LET old == DictAt(products, call'.sku).quantity
              new == DictAt(products', call'.sku).quantity
              q == call'.amount
          IN  /\ Keys(products') = Keys(products)
              /\ Len(products') = Len(products)
              /\ q <= 0 => (/\ ~result'.ok
                            /\ result'.msg = MsgAddPositive
                            /\ new = old
                            /\ products' = products)
              /\ q > 0 => (result'.ok /\ new = old + q)
              /\ \A k \in Keys(products) \ {call'.sku} :
                    DictAt(products', k) = DictAt(products, k)]_vars

\* add_stock(X1, 2) has succeeded on a collection of two records and taken
\* the quantity of X1 from 1 to 3
C19_Witness ==
    /\ call.op = "add_stock" /\ result.ok
    /\ call.sku = "X1" /\ call.amount = 2
    /\ Len(products) = 2
    /\ DictAt(products, "X1").quantity = 3
    /\ DictAt(products, "X1").updated_at = now

\* the operations that save the collection before they return success
SavingOps == MutatingOps \cup {"clear_all"}

\* the text save writes for dict d
Written(d) == FileJson([i \in 1..Len(d) |-> ToDict(d[i].val)])

\* C20: with two managers on one file, a mutation that returned success and
\* whose save did not fail leaves the file equal to what the saving
\* instance holds, so that loading it gives that collection: a SKU only the
\* other instance holds is not in the file and a record the two hold
\* differently is there as the saver holds it; the saver is told success,
\* and the other instance's collection is as it was before the step.
C20_LastWriterWins ==
    /\ []((call.op \in SavingOps /\ result.ok /\ saveRet = "true")
          => LET mine == Held(self)
                 theirs == Held(Other(self))
             IN  /\ file = Written(mine)
                 /\ Load(file, now).products = mine
                 /\ \A k \in Keys(theirs) \ Keys(mine) : k \notin FileSkus(file)
                 /\ \A k \in Keys(theirs) \cap Keys(mine) :
                        \E i \in 1..Len(file.entries) :
                            file.entries[i] = ToDict(DictAt(mine, k)))
    /\ [][call'.op \in SavingOps
          => (/\ saveRet' # "none" => result'.ok
              /\ self' = "A" => productsB' = productsB
              /\ self' = "B" => products' = products)]_vars

\* A has added X1 and saved, then B has added a record and saved: the file
\* holds B's record only, and A still holds X1
C20_Witness ==
    /\ self = "B" /\ call.op = "add" /\ result.ok /\ saveRet = "true"
    /\ now = 2
    /\ Keys(products) = {"X1"}
    /\ Len(productsB) = 1
    /\ "X1" \notin Keys(productsB)
    /\ "X1" \notin FileSkus(file)
    /\ file = Written(productsB)

\* C21: a successful update changes, on the record it names, the fields that
\* were supplied, to the values supplied, and updated_at; every field left
\* out, the sku and created_at are as they were, the keys of the collection
\* and their order are as they were, and so is every other record.
C21_UpdateFrame ==
    [][(call'.op = "update" /\ result'.ok)
       => (/\ call'.sku \in Keys(products)
           /\ Keys(products') = Keys(products)
           /\ Len(products') = Len(products)
           /\ \A i \in 1..Len(products) :
                /\ products'[i].key = products[i].key
                /\ products[i].key # call'.sku => products'[i] = products[i]
           /\ LET a == call'.args
                  p == DictAt(products, call'.sku)
                  q == DictAt(products', call'.sku)
              IN  /\ \A f \in UpdateFieldNames :
                        q[f] = IF a[f] = None THEN p[f] ELSE a[f][1]
                  /\ q.sku = p.sku
                  /\ q.created_at = p.created_at
                  /\ q.updated_at = now')]_vars

\* an update that supplied a name and a price has succeeded on the record X1
\* of a collection of two, whose description had been given when it was added
C21_Witness ==
    /\ call.op = "update" /\ result.ok /\ call.sku = "X1"
    /\ Supplied(call.args) = {"name", "price"}
    /\ Len(products) = 2
    /\ DictAt(products, "X1").name = "Gadget"
    /\ DictAt(products, "X1").price = Float(7)
    /\ DictAt(products, "X1").category = "Hardware"
    /\ DictAt(products, "X1").created_at = 0
    /\ DictAt(products, "X1").updated_at = 2

\* the SKUs of a list of records, and the keys of a dict, in their order
Skus(list) == [i \in 1..Len(list) |-> list[i].sku]

KeySeq(ps) == [i \in 1..Len(ps) |-> ps[i].key]

Without(seq, k) ==
    LET other(x) == x # k IN SelectSeq(seq, other)

\* C22: list_all returns every stored record once, in the order of the
\* collection, which is the order the records were added in: a successful
\* add puts its record last and leaves the others in their order, update,
\* add_stock and remove_stock move nothing, delete takes one record out of
\* the order, and saving and loading the collection keeps the order.
C22_ListInAddedOrder ==
    /\ [](/\ Skus(GetAllProducts(products)) = KeySeq(products)
          /\ Cardinality(Keys(products)) = Len(products)
          /\ call.op = "list_all" => answer = Values(products)
          /\ KeySeq(Load(Save(products, file, "ok").file, now + 1).products)
               = KeySeq(products))
    /\ [][/\ call'.op \in {"update", "add_stock", "remove_stock"}
               => KeySeq(products') = KeySeq(products)
          /\ (call'.op = "delete" /\ result'.ok)
               => KeySeq(products') = Without(KeySeq(products), call'.sku)
          /\ (call'.op = "add" /\ result'.ok)
               => KeySeq(products')
                    = Append(Without(KeySeq(products), result'.sku), result'.sku)
          /\ (call'.op = "construct" /\ saveRet = "true")
               => KeySeq(products') = KeySeq(products)]_vars

\* every price of the collection is a number
PricesAreNumbers(ps) == \A i \in 1..Len(ps) : ps[i].val.price # NaN

\* the sum of price * quantity over the records of ps at the positions I
RECURSIVE SumOfValues(_, _)
SumOfValues(ps, I) ==
    IF I = {} THEN 0
    ELSE LET i == CHOOSE j \in I : TRUE
         IN  ps[i].val.price[2] * ps[i].val.quantity + SumOfValues(ps, I \ {i})

\* C23: in every state whose prices are numbers, total_value() is the sum
\* over the records of price * quantity, and value_by_category() has as keys
\* the categories of the records, each once, each with the sum of price *
\* quantity over the records of that category, so that its values add up to
\* total_value(); and these are the values the two calls return.
C23_ValueSums ==
    PricesAreNumbers(products) =>
        LET total == GetTotalInventoryValue(products)
            by == GetInventoryValueByCategory(products)
            all == 1..Len(products)
            inCategory(c) == {i \in all : products[i].val.category = c}
        IN  /\ total = Float(SumOfValues(products, all))
            /\ Keys(by) = {products[i].val.category : i \in all}
            /\ Len(by) = Cardinality(Keys(by))
            /\ \A c \in Keys(by) :
                 DictAt(by, c) = Float(SumOfValues(products, inCategory(c)))
            /\ FloatSum(Values(by)) = total
            /\ call.op = "total_value" => answer = total
            /\ call.op = "value_by_category" => answer = by

\* value_by_category() has returned two categories for a collection of two
\* records, one of which an update had moved to the category Tools
C23_Witness ==
    /\ call.op = "value_by_category" /\ now = 2
    /\ PricesAreNumbers(products)
    /\ Len(products) = 2
    /\ Len(answer) = 2
    /\ Keys(answer) = {"Hardware", "Tools"}
    /\ GetTotalInventoryValue(products) = Float(10)

\* the messages of the expected domain failures
FailureMsgs ==
    ValidationMsgs
    \cup {MsgExists, MsgNotFound, MsgAddPositive, MsgRemovePositive,
          MsgInsufficient}

\* the call c, made on dict d, has an invalid field value, an unknown SKU, a
\* duplicate explicit SKU, a stock amount that is not positive or a removal
\* larger than the stock
DomainFailure(c, d) ==
    \/ c.op = "add" /\ (AddInvalid(c.args) \/ ExplicitSkuIn(c.args, d))
    \/ c.op = "update" /\ (c.sku \notin Keys(d) \/ UpdateInvalid(c.args))
    \/ c.op = "delete" /\ c.sku \notin Keys(d)
    \/ c.op = "add_stock" /\ (c.sku \notin Keys(d) \/ c.amount <= 0)
    \/ /\ c.op = "remove_stock"
       /\ \/ c.sku \notin Keys(d)
          \/ c.amount <= 0
          \/ c.amount > DictAt(d, c.sku).quantity

\* C24: add, update, delete, add_stock and remove_stock raise nothing, and a
\* call with an invalid field value, an unknown SKU, a duplicate explicit
\* SKU, a stock amount that is not positive or a removal larger than the
\* stock returns failure with the message of that failure.
C24_FailuresAreReturned ==
    [][call'.op \in MutatingOps
       => (/\ ~raised'
           /\ DomainFailure(call', products)
                => (~result'.ok /\ result'.msg \in FailureMsgs)
           /\ ~result'.ok => DomainFailure(call', products))]_vars

\* remove_stock of more than the stock has returned the insufficient stock
\* failure
C24_Witness ==
    /\ call.op = "remove_stock" /\ ~raised /\ ~result.ok
    /\ result.msg = MsgInsufficient
    /\ call.sku \in Keys(products)
    /\ call.amount > DictAt(products, call.sku).quantity

\* C25: in every state each key of the collection is the sku of the record
\* under it; update, add_stock and remove_stock leave the sku of every
\* record as it was, and so does saving the collection and loading it,
\* whether applied to the collection of a state or done by a manager
\* constructed after a save.
C25_KeyIsSku ==
    /\ [](/\ \A i \in 1..Len(products) : products[i].key = products[i].val.sku
          /\ LET loaded == Load(Save(products, file, "ok").file, now + 1)
             IN  /\ ~loaded.raised
                 /\ Skus(Values(loaded.products)) = Skus(Values(products))
                 /\ KeySeq(loaded.products) = Skus(Values(products)))
    /\ [][/\ call'.op \in {"update", "add_stock", "remove_stock"}
               => Skus(Values(products')) = Skus(Values(products))
          /\ (call'.op = "construct" /\ saveRet = "true")
               => Skus(Values(products')) = Skus(Values(products))]_vars

\* a manager has been constructed on the file saved by an add that passed
\* the SKU 1A2B3C4D, and holds that record under that key
C25_Witness ==
    /\ call.op = "construct" /\ now = 2 /\ ~raised
    /\ "1A2B3C4D" \in Keys(products)
    /\ DictAt(products, "1A2B3C4D").sku = "1A2B3C4D"
    /\ DictAt(products, "1A2B3C4D").created_at = 1
    /\ file = Written(products)

\* C26: while no save has hit an I/O error, after every operation of a
\* constructed manager, whether it returned success or failure, loading the
\* data file does not raise and gives the collection the manager holds.
C26_FileAgreesWithMemory ==
    (failures = 0 /\ ~raised /\ call.op # "construct")
        => Load(file, now + 1) = [raised |-> FALSE, products |-> products]

\* C27: a save that returns false leaves the data file such that loading it
\* gives what loading it gave before the save: the collection of the last
\* save that succeeded.
C27_FailedSaveKeepsData ==
    [][saveRet' = "false" => Load(file', now') = Load(file, now')]_vars

\* C28: in every state no stored record has a negative reorder_level, so
\* every record with quantity 0 is low on stock: the records out_of_stock()
\* returns are among those low_stock() returns.
C28_OutOfStockIsLowStock ==
    LET out == GetOutOfStockProducts(products)
        low == GetLowStockProducts(products)
    IN  /\ \A i \in 1..Len(products) : products[i].val.reorder_level >= 0
        /\ \A i \in 1..Len(products) :
             products[i].val.quantity = 0
                 => (products[i].val \in Listed(out) /\ products[i].val \in Listed(low))
        /\ Listed(out) \subseteq Listed(low)
        /\ call.op = "out_of_stock" => answer = out
        /\ call.op = "low_stock" => answer = low

\* out_of_stock() has returned the one record of the collection, which a
\* remove_stock had taken to quantity 0, and low_stock() lists it as well
C28_Witness ==
    /\ call.op = "out_of_stock" /\ now = 2
    /\ Len(answer) = 1
    /\ answer[1].quantity = 0
    /\ answer[1].updated_at = 1
    /\ answer[1] \in Listed(GetLowStockProducts(products))

\* C29: only backup() changes the backup file: every other call, the
\* construction of a manager included, leaves it as it was, so that it keeps
\* what a successful backup() left in it, which is the content the data file
\* had at that call; and backup() changes neither the collection nor the
\* data file.
C29_BackupFrame ==
    [][/\ call'.op # "backup" => backupFile' = backupFile
       /\ call'.op = "backup" => (products' = products /\ file' = file)
       /\ (call'.op = "backup" /\ result'.ok) => backupFile' = file]_vars

\* the prompts that look a product up by a typed SKU
CliLookupOps ==
    {"cli_view", "cli_update", "cli_delete", "cli_add_stock",
     "cli_remove_stock"}

\* C30: when the add prompt has stored a product under a custom SKU, typing
\* the same text at the view, update, delete, add stock or remove stock
\* prompt right after looks up the SKU the record is stored under, and so
\* does not end in 'not found'.
C30_CliFindsCustomSku ==
    [][(/\ call.op = "add" /\ result.ok
        /\ call.args.sku # None
        /\ call'.op \in CliLookupOps
        /\ Strip(call'.args[1]) = call.args.sku[1])
       => (/\ call'.sku = call.args.sku[1]
           /\ result'.msg # MsgNotFound)]_vars

====
